---- MODULE Spec2Model ----
(***************************************************************************)
(* Model of cohort_metadata.py: load_cohort_data (open, json.load, close,  *)
(* DataFrame construction) and filter_cohort (copy, then one boolean-mask  *)
(* selection per criterion).                                               *)
(*                                                                         *)
(* Cell values are the integers 1..MaxVal or Null (JSON null / Python None *)
(* / pandas NaN).  A DataFrame is a record [columns, rows]; objects live   *)
(* in a heap (a sequence indexed by object id) so that "a new object" and  *)
(* "the input is not modified" are statements about the heap.              *)
(*                                                                         *)
(* pandas semantics used here (pandas.core.ops.array_ops.comparison_op):   *)
(* a comparison of a column with the scalar None, and of a NaN cell with   *)
(* anything, is False for ==, >= and <=; DataFrame[column] raises KeyError *)
(* when the column label is absent, whatever the number of rows.           *)
(***************************************************************************)
EXTENDS Integers, Sequences, FiniteSets, TLC

VARIABLES file, fileOpen, pc, data, raised, heap, cohort_df, criteria, result

vars == <<file, fileOpen, pc, data, raised, heap, cohort_df, criteria, result>>

(* ---- bounds ---- *)
MaxRows == 2
MaxVal == 2

(* ---- values ---- *)
Null == 0
Values == 1..MaxVal
Cells == Values \cup {Null}
FlagCells == {Null, 1}
Keys == {"a", "b"}
CellsOf(k) == IF k = "a" THEN Cells ELSE FlagCells
UnknownKey == "z"
CohortKey == "cohort_metadata"
OtherKey == "images"

(* ---- JSON documents ---- *)
RowObjects ==
    UNION {{r \in [K -> Cells] : \A k \in K : r[k] \in CellsOf(k)} : K \in SUBSET Keys}
Arrays == UNION {[1..n -> RowObjects] : n \in 0..MaxRows}
EmptyObject == <<>>
JsonObjects ==
    {EmptyObject, OtherKey :> <<>>}
    \cup {CohortKey :> arr : arr \in Arrays}
    \cup {(CohortKey :> arr) @@ (OtherKey :> <<>>) : arr \in Arrays}

NoFile == [exists |-> FALSE, valid |-> FALSE, top |-> "none", members |-> EmptyObject]
GarbageFile == [exists |-> TRUE, valid |-> FALSE, top |-> "none", members |-> EmptyObject]
ArrayFile == [exists |-> TRUE, valid |-> TRUE, top |-> "array", members |-> EmptyObject]
ObjectFile(m) == [exists |-> TRUE, valid |-> TRUE, top |-> "object", members |-> m]
Files == {NoFile, GarbageFile, ArrayFile} \cup {ObjectFile(m) : m \in JsonObjects}

NoData == [top |-> "none", members |-> EmptyObject]

(* ---- pd.DataFrame(list of dicts) ---- *)
ColumnsOf(arr) == UNION {DOMAIN arr[i] : i \in 1..Len(arr)}

DataFrameFirstRowKeys(arr) ==
    LET cols == IF Len(arr) = 0 THEN {} ELSE DOMAIN arr[1]
    IN [columns |-> cols,
        rows |-> [i \in 1..Len(arr) |->
                    [c \in cols |-> IF c \in DOMAIN arr[i] THEN arr[i][c] ELSE Null]]]

DataFrame(arr) ==
    LET cols == ColumnsOf(arr)
    IN [columns |-> cols,
        rows |-> [i \in 1..Len(arr) |->
                    [c \in cols |-> IF c \in DOMAIN arr[i] THEN arr[i][c] ELSE Null]]]

(* ---- load_cohort_data ---- *)
Init ==
    /\ file \in Files
    /\ fileOpen = FALSE
    /\ pc = "start"
    /\ data = NoData
    /\ raised = "none"
    /\ heap = <<>>
    /\ cohort_df = Null
    /\ criteria = <<>>
    /\ result = Null

Open ==
    /\ pc = "start"
    /\ IF file.exists
       THEN /\ fileOpen' = TRUE
            /\ pc' = "opened"
            /\ raised' = raised
       ELSE /\ fileOpen' = FALSE
            /\ pc' = "failed"
            /\ raised' = "FileNotFoundError"
    /\ UNCHANGED <<file, data, heap, cohort_df, criteria, result>>

JsonLoad ==
    /\ pc = "opened"
    /\ pc' = "exiting"
    /\ IF file.valid
       THEN /\ data' = [top |-> file.top, members |-> file.members]
            /\ raised' = raised
       ELSE /\ data' = data
            /\ raised' = "JSONDecodeError"
    /\ UNCHANGED <<file, fileOpen, heap, cohort_df, criteria, result>>

WithExitLeak ==
    /\ pc = "exiting"
    /\ IF raised = "none"
       THEN fileOpen' = FALSE /\ pc' = "with_done"
       ELSE fileOpen' = fileOpen /\ pc' = "failed"
    /\ UNCHANGED <<file, data, raised, heap, cohort_df, criteria, result>>

WithExit ==
    /\ pc = "exiting"
    /\ fileOpen' = FALSE
    /\ pc' = IF raised = "none" THEN "with_done" ELSE "failed"
    /\ UNCHANGED <<file, data, raised, heap, cohort_df, criteria, result>>

LookupDefaultEmpty(d) ==
    IF d.top # "object" THEN [raised |-> "TypeError", value |-> <<>>]
    ELSE IF CohortKey \in DOMAIN d.members
    THEN [raised |-> "none", value |-> d.members[CohortKey]]
    ELSE [raised |-> "none", value |-> <<>>]

Lookup(d) ==
    IF d.top # "object" THEN [raised |-> "TypeError", value |-> <<>>]
    ELSE IF CohortKey \in DOMAIN d.members
    THEN [raised |-> "none", value |-> d.members[CohortKey]]
    ELSE [raised |-> "KeyError", value |-> <<>>]

ReturnDataFrame ==
    /\ pc = "with_done"
    /\ LET l == Lookup(data)
       IN IF l.raised = "none"
          THEN /\ heap' = Append(heap, DataFrame(l.value))
               /\ cohort_df' = Len(heap) + 1
               /\ pc' = "loaded"
               /\ raised' = raised
          ELSE /\ heap' = heap
               /\ cohort_df' = cohort_df
               /\ pc' = "failed"
               /\ raised' = l.raised
    /\ UNCHANGED <<file, fileOpen, data, criteria, result>>

NextLoad == Open \/ JsonLoad \/ WithExit \/ ReturnDataFrame

SpecLoad == Init /\ [][NextLoad]_vars

(* ---- criteria: a dict, i.e. a sequence of items with distinct keys ---- *)
CriteriaKeys == Keys \cup {UnknownKey}
Scalar(s) == [kind |-> "scalar", v |-> s]
Range(lo, hi) == [kind |-> "tuple", lo |-> lo, hi |-> hi]
CriterionValues(k) ==
    IF k = UnknownKey
    THEN {Scalar(1), Range(1, Null)}
    ELSE {Scalar(s) : s \in CellsOf(k)}
         \cup {Range(lo, hi) : lo \in CellsOf(k), hi \in CellsOf(k)}
Items == UNION {{[column |-> k, value |-> v] : v \in CriterionValues(k)} : k \in CriteriaKeys}
CriteriaMappings ==
    UNION {{c \in [1..n -> Items] :
                \A i \in 1..n : \A j \in 1..n : i # j => c[i].column # c[j].column} :
           n \in 0..Cardinality(CriteriaKeys)}

(* ---- column comparisons, cell by cell ---- *)
GeStrict(v, bound) == v # Null /\ bound # Null /\ v > bound

Ge(v, bound) == v # Null /\ bound # Null /\ v >= bound

Le(v, bound) == v # Null /\ bound # Null /\ v <= bound

EqNoneMatchesNull(v, s) == v = s

Eq(v, s) == v # Null /\ s # Null /\ v = s

ColumnMissingWhenRows(t, column) == column \notin t.columns /\ Len(t.rows) > 0

ColumnMissing(t, column) == column \notin t.columns

Passes(row, column, value) ==
    IF value.kind = "tuple"
    THEN Ge(row[column], value.lo) /\ Le(row[column], value.hi)
    ELSE Eq(row[column], value.v)

RECURSIVE SelectRows(_, _, _)
SelectRows(rows, column, value) ==
    IF rows = <<>> THEN <<>>
    ELSE LET rest == SelectRows(Tail(rows), column, value)
         IN IF Passes(Head(rows), column, value) THEN <<Head(rows)>> \o rest ELSE rest

(* filtered[mask]: a new frame with the same columns *)
Select(t, column, value) ==
    [columns |-> t.columns, rows |-> SelectRows(t.rows, column, value)]

(* ---- filter_cohort ---- *)
DfCopyAlias(h, id) == [heap |-> h, id |-> id]

DfCopyColumnsOnly(h, id) ==
    [heap |-> Append(h, [columns |-> h[id].columns, rows |-> <<>>]), id |-> Len(h) + 1]

DfCopy(h, id) == [heap |-> Append(h, h[id]), id |-> Len(h) + 1]

RECURSIVE FilterLoop(_, _, _)
FilterLoop(h, filtered, items) ==
    IF items = <<>> THEN [heap |-> h, result |-> filtered, raised |-> "none"]
    ELSE LET column == Head(items).column
             value == Head(items).value
         IN IF ColumnMissing(h[filtered], column)
            THEN [heap |-> h, result |-> Null, raised |-> "KeyError"]
            ELSE FilterLoop(Append(h, Select(h[filtered], column, value)),
                            Len(h) + 1, Tail(items))

filter_cohort(h, df, c) ==
    LET copy == DfCopy(h, df)
    IN FilterLoop(copy.heap, copy.id, c)

FilterCohort ==
    /\ pc = "loaded"
    /\ \E c \in CriteriaMappings :
         LET r == filter_cohort(heap, cohort_df, c)
         IN /\ criteria' = c
            /\ heap' = r.heap
            /\ result' = r.result
            /\ raised' = r.raised
            /\ pc' = IF r.raised = "none" THEN "filtered" ELSE "failed"
    /\ UNCHANGED <<file, fileOpen, data, cohort_df>>

(* the state in which load_cohort_data has returned a frame *)
Tables == {DataFrame(arr) : arr \in Arrays}

InitFilter ==
    /\ \E t \in Tables :
         /\ file = ObjectFile(CohortKey :> t.rows)
         /\ data = [top |-> "object", members |-> CohortKey :> t.rows]
         /\ heap = <<t>>
    /\ fileOpen = FALSE
    /\ pc = "loaded"
    /\ raised = "none"
    /\ cohort_df = 1
    /\ criteria = <<>>
    /\ result = Null

NextFilter == FilterCohort

SpecFilter == InitFilter /\ [][NextFilter]_vars

Next == NextLoad \/ NextFilter

Spec == Init /\ [][Next]_vars

(* ======================= properties ======================= *)
Called == pc \in {"filtered", "failed"}
Input == heap[cohort_df]
KnownKeys == \A i \in 1..Len(criteria) : criteria[i].column \in Input.columns

(* what the documented contract asks of one criterion: an absent bound is *)
(* unbounded on that side; a scalar is an equality constraint, which null *)
(* never meets (the reading that C4 settles); a null cell lies in no range *)
Satisfies(row, item) ==
    LET v == row[item.column]
        c == item.value
    IN IF c.kind = "tuple"
       THEN /\ v # Null
            /\ (c.lo # Null => v >= c.lo)
            /\ (c.hi # Null => v <= c.hi)
       ELSE v # Null /\ v = c.v

RECURSIVE Keep(_, _)
Keep(rows, items) ==
    IF rows = <<>> THEN <<>>
    ELSE LET rest == Keep(Tail(rows), items)
         IN IF \A i \in 1..Len(items) : Satisfies(Head(rows), items[i])
            THEN <<Head(rows)>> \o rest
            ELSE rest

(* C1: when every criteria key is a column, filter_cohort returns exactly   *)
(* the input rows that satisfy every criterion (AND across the criteria).   *)
C1_ConjunctionOfCriteria ==
    (Called /\ KnownKeys) =>
        /\ pc = "filtered"
        /\ heap[result].rows = Keep(Input.rows, criteria)

(* C2: a range criterion with one bound absent (None) is unbounded on that  *)
(* side: the call returns exactly the rows within the bound that is present. *)
C2_AbsentBoundUnbounded ==
    (/\ Called
     /\ KnownKeys
     /\ Len(criteria) = 1
     /\ criteria[1].value.kind = "tuple"
     /\ (criteria[1].value.lo = Null) # (criteria[1].value.hi = Null)) =>
        /\ pc = "filtered"
        /\ heap[result].rows = Keep(Input.rows, criteria)

(* C3: a range criterion (lo, hi) with both bounds present keeps a row if   *)
(* and only if lo <= value <= hi, the two ends included.                    *)
FullRange(item) ==
    item.value.kind = "tuple" /\ item.value.lo # Null /\ item.value.hi # Null
InRange(row, item) ==
    /\ row[item.column] # Null
    /\ item.value.lo <= row[item.column]
    /\ row[item.column] <= item.value.hi
C3_RangeInclusive ==
    (pc = "filtered") =>
        \A i \in 1..Len(criteria) :
            FullRange(criteria[i]) =>
                /\ \A k \in 1..Len(heap[result].rows) :
                        InRange(heap[result].rows[k], criteria[i])
                /\ Len(criteria) = 1 =>
                        heap[result].rows =
                            SelectSeq(Input.rows, LAMBDA r : InRange(r, criteria[1]))
C3_Witness ==
    /\ pc = "filtered"
    /\ Len(criteria) = 1
    /\ FullRange(criteria[1])
    /\ criteria[1].value.lo < criteria[1].value.hi
    /\ Len(Input.rows) = 2
    /\ heap[result].rows = Input.rows
    /\ Input.rows[1][criteria[1].column] = criteria[1].value.lo
    /\ Input.rows[2][criteria[1].column] = criteria[1].value.hi

(* C4 as stated: a scalar criterion keeps a row if and only if the row's    *)
(* value in that column equals the scalar.                                  *)
C4_ScalarEquality ==
    (pc = "filtered" /\ Len(criteria) = 1 /\ criteria[1].value.kind = "scalar") =>
        heap[result].rows =
            SelectSeq(Input.rows,
                      LAMBDA r : r[criteria[1].column] = criteria[1].value.v)

(* C4 amended: a scalar criterion that is not null keeps a row if and only  *)
(* if the row's value equals the scalar; a null scalar keeps no row, not    *)
(* even the rows whose value is null.                                       *)
C4_ScalarEqualityNonNull ==
    (pc = "filtered") =>
        \A i \in 1..Len(criteria) :
            criteria[i].value.kind = "scalar" =>
                /\ \A k \in 1..Len(heap[result].rows) :
                        /\ criteria[i].value.v # Null
                        /\ heap[result].rows[k][criteria[i].column] = criteria[i].value.v
                /\ Len(criteria) = 1 =>
                        heap[result].rows =
                            SelectSeq(Input.rows,
                                      LAMBDA r : /\ criteria[1].value.v # Null
                                                 /\ r[criteria[1].column] = criteria[1].value.v)
C4_Witness ==
    /\ pc = "filtered"
    /\ Len(criteria) = 1
    /\ criteria[1].value.kind = "scalar"
    /\ criteria[1].value.v # Null
    /\ Len(Input.rows) = 2
    /\ Len(heap[result].rows) = 1
    /\ heap[result].rows[1] = Input.rows[1]
    /\ Input.rows[2][criteria[1].column] \notin {Null, criteria[1].value.v}

(* C5: a criteria mapping with a key that is not a column makes the call    *)
(* fail with no table returned, wherever the key stands among the criteria  *)
(* and also when the table has no rows (left).                              *)
C5_UnknownKeyFails ==
    (Called /\ ~KnownKeys) =>
        /\ pc = "failed"
        /\ raised = "KeyError"
        /\ result = Null
C5_Witness ==
    /\ pc = "failed"
    /\ raised = "KeyError"
    /\ Len(criteria) = 2
    /\ criteria[1].column \in Input.columns
    /\ criteria[2].column \notin Input.columns
    /\ Len(Input.rows) > 0
    /\ heap[Len(heap)].rows = <<>>

(* C6: with an empty criteria mapping the returned table equals the input:  *)
(* same rows in the same order, same columns.                               *)
C6_EmptyCriteriaIdentity ==
    (Called /\ criteria = <<>>) =>
        /\ pc = "filtered"
        /\ heap[result].columns = Input.columns
        /\ heap[result].rows = Input.rows
C6_Witness ==
    /\ pc = "filtered"
    /\ criteria = <<>>
    /\ Len(Input.rows) = 2
    /\ Input.rows[1] # Input.rows[2]
    /\ heap[result] = Input

(* C7: a call of filter_cohort, returning or failing, leaves every existing *)
(* object (the input table among them) as it was, and a returned table is   *)
(* an object that did not exist before the call, so never the input.        *)
C7_InputNotModified ==
    [][pc = "loaded" =>
        /\ cohort_df' = cohort_df
        /\ \A id \in DOMAIN heap : id \in DOMAIN heap' /\ heap'[id] = heap[id]
        /\ result' # Null => (result' \notin DOMAIN heap /\ result' \in DOMAIN heap')]_vars
C7_Witness ==
    /\ pc = "filtered"
    /\ Len(criteria) = 1
    /\ Len(Input.rows) = 2
    /\ heap[result] = Input
    /\ result # cohort_df

(* C8: a document whose cohort_metadata is an array of row objects loads    *)
(* into a table with one row per element, in array order, whose columns are *)
(* the union of the rows' keys; an empty array gives a table with no rows.  *)
C8_OneRowPerElement ==
    (pc = "loaded") =>
        LET arr == file.members[CohortKey]
            t == heap[cohort_df]
        IN /\ Len(t.rows) = Len(arr)
           /\ \A c \in Keys : c \in t.columns <=> \E i \in 1..Len(arr) : c \in DOMAIN arr[i]
           /\ t.columns \subseteq Keys
           /\ \A i \in 1..Len(arr) :
                /\ DOMAIN t.rows[i] = t.columns
                /\ \A c \in DOMAIN arr[i] : t.rows[i][c] = arr[i][c]
           /\ arr = <<>> => t.rows = <<>>
C8_Witness ==
    /\ pc = "loaded"
    /\ Len(file.members[CohortKey]) = 2
    /\ DOMAIN file.members[CohortKey][1] = {"a"}
    /\ DOMAIN file.members[CohortKey][2] = {"b"}
    /\ heap[cohort_df].columns = {"a", "b"}

(* C9: a missing file, a file that is not valid JSON and a top-level object *)
(* without the cohort_metadata key each end load_cohort_data with an error  *)
(* raised and no table built.                                               *)
LacksKey == file.valid /\ file.top = "object" /\ CohortKey \notin DOMAIN file.members
C9_LoadFailures ==
    /\ ~file.exists =>
            /\ pc \in {"start", "failed"}
            /\ pc = "failed" => raised = "FileNotFoundError"
    /\ (file.exists /\ ~file.valid) =>
            /\ pc \in {"start", "opened", "exiting", "failed"}
            /\ pc = "failed" => raised = "JSONDecodeError"
    /\ (file.exists /\ LacksKey) =>
            /\ pc \in {"start", "opened", "exiting", "with_done", "failed"}
            /\ pc = "failed" => raised = "KeyError"
    /\ pc = "failed" => (raised # "none" /\ cohort_df = Null /\ heap = <<>>)
C9_Witness ==
    /\ pc = "failed"
    /\ file.exists
    /\ LacksKey
    /\ raised = "KeyError"
    /\ cohort_df = Null

(* C10: the file is open only between open() and the end of the with block: *)
(* it is closed when the lookup and the table construction start, and       *)
(* closed when the function is left, by return or by any error.             *)
C10_FileClosed ==
    /\ fileOpen => pc \in {"opened", "exiting"}
    /\ pc \in {"with_done", "loaded", "failed"} => ~fileOpen
    /\ pc \in {"opened", "exiting"} => fileOpen
C10_Witness ==
    /\ pc = "failed"
    /\ raised = "JSONDecodeError"
    /\ file.exists
    /\ ~fileOpen
====
